---- MODULE Spec2Model ----
(***************************************************************************)
(* Missingness injection (src/src/data_generation.py): mcar, mar and nmar  *)
(* overwrite cells of one column of a pandas DataFrame with np.nan.        *)
(*                                                                         *)
(* The DataFrame is a record [dtypes, cols]: the declared type of every    *)
(* column and its cells.  A cell is [na, v]: na marks np.nan, v is the     *)
(* value (a number, a category label, or 0/1 for False/True).              *)
(* Probabilities are kept symbolically: the tuning parameter in units of   *)
(* 1/Resolution, a sigmoid by its argument, a z-score (val - mean) / std   *)
(* by the pair (n*val - sum, n*sumsq - sum^2).                             *)
(*                                                                         *)
(* Library semantics assumed (pandas 1.x/2.x without copy-on-write, the    *)
(* versions the chained assignment dataset[c].iloc[i] = np.nan writes      *)
(* through on): writing np.nan into an int64 column makes it float64 and   *)
(* into a bool column makes it object; np.mean/np.std of a Series skip     *)
(* NaN and np.std uses ddof = 0; np.random.choice validates p (raising     *)
(* ValueError on NaN) before it draws.  Cell values stay within the range  *)
(* where int64 -> float64 is exact.                                        *)
(***************************************************************************)
EXTENDS Integers, Sequences, FiniteSets, TLC

\* ---------------------------------------------------------------- bounds
NRows == 3
MaxVal == 2
Resolution == 2
MaxDraw == 1

\* ---------------------------------------------------------------- values
ColNames == {"x", "g"}
AbsentName == "zz"
RefNames == ColNames \cup {AbsentName}
NoColumn == "-"

NaNCell == [na |-> TRUE, v |-> 0]
Val(k) == [na |-> FALSE, v |-> k]

ParamVals == (0 - 1) .. (Resolution + 1)
NormalDraws == {0 - MaxDraw, MaxDraw}
Coins == [1 .. NRows -> {0, 1}]

VARIABLES dataset, before, last, phase
vars == <<dataset, before, last, phase>>

NoCall == [op |-> "none", miss |-> NoColumn, dep |-> NoColumn, param |-> 0,
           branch |-> "none", err |-> "ok", log |-> <<>>]

\* ------------------------------------------------------------- DataFrame
Columns(ds) == DOMAIN ds.cols
\* dataset.shape[0], len(dataset[column])
Shape0(ds) == Len(ds.cols[CHOOSE c \in Columns(ds) : TRUE])

\* dataset[column].iloc[i] = np.nan : the cell becomes NaN; an int64 column
\* is upcast to float64 and a bool column to object.
UpcastForNaN(dt) ==
    CASE dt = "int64" -> "float64"
      [] dt = "bool" -> "object"
      [] OTHER -> dt

\* Mutant: the write stores a fill value instead of the missing marker.
SetFill(ds, col, i) ==
    [dtypes |-> ds.dtypes, cols |-> [ds.cols EXCEPT ![col][i] = Val(0)]]

SetNaN(ds, col, i) ==
    [dtypes |-> [ds.dtypes EXCEPT ![col] = UpcastForNaN(@)],
     cols |-> [ds.cols EXCEPT ![col][i] = NaNCell]]

\* ------------------------------------------------------------ numerics
\* A z-score / sigmoid argument: NaN, a finite num / sqrt(den2), or +-inf
\* (sign in num).  A zero numerator is written 0 / sqrt(1).
ZNaN == [k |-> "nan", num |-> 0, den2 |-> 0]
ZFin(num, den2) == [k |-> "fin", num |-> num, den2 |-> IF num = 0 THEN 1 ELSE den2]
ZInf(sign) == [k |-> "inf", num |-> sign, den2 |-> 0]

\* def sig(x): return 1 / (1 + np.exp(-x)) : NaN for NaN, 1 and 0 at +-inf,
\* strictly between 0 and 1 otherwise (kept as "sig of x").
sig(x) ==
    CASE x.k = "nan" -> [k |-> "nan", num |-> 0, den2 |-> 0]
      [] x.k = "inf" -> [k |-> "lim", num |-> (IF x.num > 0 THEN 1 ELSE 0), den2 |-> 0]
      [] OTHER -> [k |-> "sig", num |-> x.num, den2 |-> x.den2]

\* np.mean(series), np.std(series): pandas reductions, NaN skipped, ddof 0.
\* mean = s / n and std = sqrt(q) / n with q = n * sumsq - s^2; NaN when n = 0.
RECURSIVE SumTo(_, _, _)
SumTo(col, i, power) ==
    IF i = 0 THEN 0
    ELSE SumTo(col, i - 1, power)
         + (IF col[i].na THEN 0 ELSE IF power = 2 THEN col[i].v * col[i].v ELSE col[i].v)

CountValid(col) == Cardinality({i \in 1 .. Len(col) : ~col[i].na})

Mean(col) == [n |-> CountValid(col), s |-> SumTo(col, Len(col), 1)]

Std(col) ==
    LET n == CountValid(col)
        s == SumTo(col, Len(col), 1)
    IN [n |-> n, q |-> n * SumTo(col, Len(col), 2) - s * s]

\* def norm(val, mean, std): return (val - mean) / std
\* (numpy floats: 0 / 0 is NaN, nonzero / 0 is +-inf, no exception)
norm(val, mean, std) ==
    IF val.na \/ mean.n = 0 \/ std.n = 0 THEN ZNaN
    ELSE LET d == mean.n * val.v - mean.s
         IN IF std.q = 0
            THEN (IF d = 0 THEN ZNaN ELSE ZInf(IF d > 0 THEN 1 ELSE 0 - 1))
            ELSE ZFin(d, std.q)

\* ------------------------------------------------------- probabilities
\* The first weight handed to np.random.choice([1, 0], p = [q, 1 - q]).
ProbNaN == [kind |-> "nan", num |-> 0, den2 |-> 0, scale |-> 0]
NoProb == [kind |-> "none", num |-> 0, den2 |-> 0, scale |-> 0]
ProbConst(p) == [kind |-> "const", num |-> 0, den2 |-> 1, scale |-> p]

\* base * b
Times(base, b) ==
    CASE base.k = "nan" -> ProbNaN
      [] base.k = "lim" -> ProbConst(base.num * b)
      [] OTHER -> [kind |-> "sig", num |-> base.num, den2 |-> base.den2, scale |-> b]

\* np.random.choice rejects NaN weights and weights outside [0, 1].
ValidP(prob) == prob.kind # "nan" /\ prob.scale >= 0 /\ prob.scale <= Resolution

\* Mutant: the outcome ignores the weights.
ChoiceUnweighted(prob, coin) == coin

\* The value np.random.choice([1, 0], p = [q, 1 - q]) returns: 0 when q = 0,
\* 1 when q = 1, otherwise what the random source gives (coin).
Choice(prob, coin) ==
    IF prob.scale = 0 THEN 0
    ELSE IF prob.kind = "const" /\ prob.scale = Resolution THEN 1
    ELSE coin

\* ------------------------------------------------------------ the log
\* What a call did with the random source, in order.
NormalEvent(key, z) ==
    [ev |-> "normal", row |-> 0, key |-> key, z |-> z, prob |-> NoProb, out |-> 0]
TrialEvent(i, key, prob, out) ==
    [ev |-> "trial", row |-> i, key |-> key, z |-> 0, prob |-> prob, out |-> out]

Result(ds, log, err, branch) == [ds |-> ds, log |-> log, err |-> err, branch |-> branch]

\* if np.random.choice([1, 0], p = [q, 1 - q]) == 1:
\*     dataset[miss].iloc[i] = np.nan
\* err = "ok" means the loop goes on to the next row.
BernoulliWrite(ds, i, log, miss, key, prob, coin, branch) ==
    IF ~ValidP(prob) THEN Result(ds, log, "ValueError", branch)
    ELSE LET out == Choice(prob, coin)
             log2 == Append(log, TrialEvent(i, key, prob, out))
         IN IF out = 1
            THEN (IF miss \in Columns(ds)
                  THEN Result(SetNaN(ds, miss, i), log2, "ok", branch)
                  ELSE Result(ds, log2, "KeyError", branch))
            ELSE Result(ds, log2, "ok", branch)

\* ------------------------------------------------------------- mcar
\* Mutant: only the lower end of the range is checked.
OutOfRangeBelowOnly(p) == p < 0

OutOfRange(p) == (p < 0) \/ (p > Resolution)

RECURSIVE McarLoop(_, _, _, _, _, _)
McarLoop(ds, i, log, column, p, coins) ==
    IF i > Shape0(ds) THEN Result(ds, log, "ok", "none")
    ELSE LET r == BernoulliWrite(ds, i, log, column, ds.cols[column][i],
                                   ProbConst(p), coins[i], "none")
         IN IF r.err # "ok" THEN r
            ELSE McarLoop(r.ds, i + 1, r.log, column, p, coins)

mcar(ds, column, p, coins) ==
    IF OutOfRange(p) THEN Result(ds, <<>>, "Exception", "none")
    ELSE IF column \notin Columns(ds) THEN Result(ds, <<>>, "KeyError", "none")
    ELSE McarLoop(ds, 1, <<>>, column, p, coins)

\* ------------------------------------------------------- mar and nmar
\* (dataset.dtypes.loc[c] == object) or (dataset.dtypes.loc[c] == bool)
IsCategorical(dt) == (dt = "object") \/ (dt = "bool")

\* np.mean / np.std of a column: defined for the numeric dtypes; a column of
\* dtype category raises TypeError.
Reducible(dt) == dt \in {"int64", "float64"}

\* Mutant: the values themselves, duplicates kept (no .unique()).
RECURSIVE allValues(_, _)
allValues(col, i) == IF i = 0 THEN <<>> ELSE Append(allValues(col, i - 1), col[i])

\* dataset[c].unique(): the distinct values in order of first appearance
\* (NaN is one of them).
RECURSIVE unique(_, _)
unique(col, i) ==
    IF i = 0 THEN <<>>
    ELSE LET u == unique(col, i - 1)
         IN IF \E j \in 1 .. Len(u) : u[j] = col[i] THEN u ELSE Append(u, col[i])

\* How many np.random.normal() draws a call with these arguments makes.
DrawCount(ds, dep, b) ==
    IF OutOfRange(b) \/ dep \notin Columns(ds) THEN 0
    ELSE IF IsCategorical(ds.dtypes[dep]) THEN Len(unique(ds.cols[dep], Len(ds.cols[dep])))
    ELSE 0

\* cat_dict = {cat: sig(np.random.normal()) for cat in dataset[c].unique()}
\* draws[k] is what the k-th np.random.normal() returns.
cat_dict(u, draws) ==
    [c \in {u[k] : k \in 1 .. Len(u)} |->
        sig(ZFin(draws[CHOOSE k \in 1 .. Len(u) : u[k] = c], 1))]

CatLog(u, draws) == [k \in 1 .. Len(u) |-> NormalEvent(u[k], draws[k])]

\* The probability of a row in the categorical branch: cat_dict[dep_val] * b
CatProb(catDict, depVal, b) == Times(catDict[depVal], b)

\* The probability of a row in the numeric branch: sig(norm(val, mean, std)) * b
NumProb(depVal, mean, std, b) == Times(sig(norm(depVal, mean, std)), b)

\* The value a row's probability is computed from.  mar reads
\* dataset.iloc[i, get_loc(dep_column)] in every iteration; nmar iterates
\* enumerate(dataset[column]), the Series fetched when the loop starts.
DepVal(ds, dep, series, viaIloc, i) == IF viaIloc THEN ds.cols[dep][i] ELSE series[i]

RECURSIVE CatLoop(_, _, _, _, _, _, _, _, _, _)
CatLoop(ds, i, log, miss, dep, b, catDict, coins, series, viaIloc) ==
    IF i > Shape0(ds) THEN Result(ds, log, "ok", "categorical")
    ELSE LET depVal == DepVal(ds, dep, series, viaIloc, i)
         IN IF depVal \notin DOMAIN catDict THEN Result(ds, log, "KeyError", "categorical")
            ELSE LET r == BernoulliWrite(ds, i, log, miss, depVal,
                                         CatProb(catDict, depVal, b), coins[i], "categorical")
                 IN IF r.err # "ok" THEN r
                    ELSE CatLoop(r.ds, i + 1, r.log, miss, dep, b, catDict, coins,
                                 series, viaIloc)

RECURSIVE NumLoop(_, _, _, _, _, _, _, _, _, _, _)
NumLoop(ds, i, log, miss, dep, b, mean, std, coins, series, viaIloc) ==
    IF i > Shape0(ds) THEN Result(ds, log, "ok", "numeric")
    ELSE LET depVal == DepVal(ds, dep, series, viaIloc, i)
             r == BernoulliWrite(ds, i, log, miss, depVal,
                                 NumProb(depVal, mean, std, b), coins[i], "numeric")
         IN IF r.err # "ok" THEN r
            ELSE NumLoop(r.ds, i + 1, r.log, miss, dep, b, mean, std, coins,
                         series, viaIloc)

\* The body shared by mar (viaIloc) and nmar (miss = dep = column).
Inject(ds, miss, dep, b, draws, coins, viaIloc) ==
    IF OutOfRange(b) THEN Result(ds, <<>>, "Exception", "none")
    ELSE IF dep \notin Columns(ds) THEN Result(ds, <<>>, "KeyError", "none")
    ELSE IF IsCategorical(ds.dtypes[dep])
    THEN LET u == unique(ds.cols[dep], Len(ds.cols[dep]))
         IN CatLoop(ds, 1, CatLog(u, draws), miss, dep, b, cat_dict(u, draws), coins,
                    ds.cols[dep], viaIloc)
    ELSE IF ~Reducible(ds.dtypes[dep]) THEN Result(ds, <<>>, "TypeError", "numeric")
    ELSE NumLoop(ds, 1, <<>>, miss, dep, b, Mean(ds.cols[dep]), Std(ds.cols[dep]), coins,
                 ds.cols[dep], viaIloc)

\* Mutant: the write goes to dep_column instead of miss_column.
marWritesDep(ds, miss_column, dep_column, b, draws, coins) ==
    Inject(ds, dep_column, dep_column, b, draws, coins, TRUE)

mar(ds, miss_column, dep_column, b, draws, coins) ==
    Inject(ds, miss_column, dep_column, b, draws, coins, TRUE)

nmar(ds, column, b, draws, coins) ==
    Inject(ds, column, column, b, draws, coins, FALSE)

\* ------------------------------------------------------------- system
\* The dataset the caller passes in: a numeric column x and a label column g.
\* An int64 or bool column cannot hold NaN; the other dtypes can.
TypeOfX == {"int64", "float64"}
TypeOfG == {"object", "bool", "category"}
ValuesOf(dt) == IF dt = "bool" THEN {0, 1} ELSE 1 .. MaxVal
CellsOf(dt) ==
    {Val(k) : k \in ValuesOf(dt)} \cup (IF dt \in {"int64", "bool"} THEN {} ELSE {NaNCell})
ColumnsOf(dt) == [1 .. NRows -> CellsOf(dt)]

Init ==
    /\ \E tx \in TypeOfX, tg \in TypeOfG :
         \E cx \in ColumnsOf(tx), cg \in ColumnsOf(tg) :
            dataset = [dtypes |-> [c \in ColNames |-> IF c = "x" THEN tx ELSE tg],
                       cols |-> [c \in ColNames |-> IF c = "x" THEN cx ELSE cg]]
    /\ before = dataset
    /\ last = NoCall
    /\ phase = "ready"

Returned(r, call) ==
    /\ dataset' = r.ds
    /\ before' = dataset
    /\ last' = [call EXCEPT !.branch = r.branch, !.err = r.err, !.log = r.log]
    /\ phase' = "returned"

Mcar(column, p, coins) ==
    /\ phase = "ready"
    /\ Returned(mcar(dataset, column, p, coins),
                [NoCall EXCEPT !.op = "mcar", !.miss = column, !.param = p])

Mar(miss_column, dep_column, b, coins) ==
    /\ phase = "ready"
    /\ \E draws \in [1 .. DrawCount(dataset, dep_column, b) -> NormalDraws] :
          Returned(mar(dataset, miss_column, dep_column, b, draws, coins),
                   [NoCall EXCEPT !.op = "mar", !.miss = miss_column,
                                  !.dep = dep_column, !.param = b])

Nmar(column, b, coins) ==
    /\ phase = "ready"
    /\ \E draws \in [1 .. DrawCount(dataset, column, b) -> NormalDraws] :
          Returned(nmar(dataset, column, b, draws, coins),
                   [NoCall EXCEPT !.op = "nmar", !.miss = column,
                                  !.dep = column, !.param = b])

\* return dataset: the caller holds the same, mutated dataset (or caught the
\* error) and goes on to its next call.
Chain ==
    /\ phase = "returned"
    /\ phase' = "ready"
    /\ before' = dataset
    /\ last' = NoCall
    /\ UNCHANGED dataset

Next ==
    \/ \E column \in RefNames, p \in ParamVals, coins \in Coins : Mcar(column, p, coins)
    \/ \E miss \in RefNames, dep \in RefNames, b \in ParamVals, coins \in Coins :
          Mar(miss, dep, b, coins)
    \/ \E column \in RefNames, b \in ParamVals, coins \in Coins : Nmar(column, b, coins)
    \/ Chain

Spec == Init /\ [][Next]_vars

\* ============================================================== claims
Called == phase = "returned"
ParamOutside == (last.param < 0) \/ (last.param > Resolution)
Referenced == IF last.op = "mar" THEN {last.miss, last.dep} ELSE {last.miss}
Rows == 1 .. NRows
Trials == {k \in 1 .. Len(last.log) : last.log[k].ev = "trial"}
Normals == {k \in 1 .. Len(last.log) : last.log[k].ev = "normal"}
Tried(i) == \E k \in Trials : last.log[k].row = i
Selected(i) == \E k \in Trials : last.log[k].row = i /\ last.log[k].out = 1
SameMissing(c) == \A i \in Rows : dataset.cols[c][i].na = before.cols[c][i].na
NumericDep == last.dep \in Columns(before) /\ before.dtypes[last.dep] \in {"int64", "float64"}
ZeroVariance(col) ==
    /\ \A i \in 1 .. Len(col) : ~col[i].na
    /\ \A i, j \in 1 .. Len(col) : col[i].v = col[j].v

\* C1: a call whose tuning parameter is outside [0,1] raises an error, has
\* consumed no random draw and has written no cell: the dataset is what it
\* was before the call.
C1_OutOfRangeFailsFirst ==
    (Called /\ ParamOutside) =>
        (last.err # "ok" /\ last.log = <<>> /\ dataset = before)

\* C1 witness: mar with b out of range on a categorical dependent column and
\* existing columns, where a valid b would have drawn and could have written.
C1_Witness ==
    /\ Called /\ ParamOutside /\ last.op = "mar"
    /\ last.miss = "x" /\ last.dep = "g"
    /\ before.dtypes["g"] = "object"
    /\ last.err = "Exception"

\* C2: with a valid parameter, a call that names a column the dataset does
\* not have fails with a lookup error and leaves every cell as it was.
C2_AbsentColumnRaises ==
    (Called /\ ~ParamOutside /\ ~(Referenced \subseteq Columns(before))) =>
        (last.err = "KeyError" /\ dataset = before)

\* C3: on a numeric dependent column whose values are all equal, mar and nmar
\* raise no error and every row's trial uses sigmoid(0) * b.
C3_ZeroVarianceFallback ==
    (Called /\ last.op \in {"mar", "nmar"} /\ ~ParamOutside /\ NumericDep
       /\ last.miss \in Columns(before) /\ ZeroVariance(before.cols[last.dep])) =>
        /\ last.err = "ok"
        /\ \A i \in Rows : \E k \in Trials :
              /\ last.log[k].row = i
              /\ last.log[k].prob = Times(sig(ZFin(0, 1)), last.param)

\* C4: a call either returns with every row tried, or raises and leaves the
\* dataset as it was before the call.
C4_AllOrNothing ==
    Called =>
        \/ (last.err = "ok" /\ \A i \in Rows : Tried(i))
        \/ (last.err # "ok" /\ dataset = before)

\* C5: on an existing column, mcar with p = 0 adds no missing cell and mcar
\* with p = 1 leaves every cell of the column missing, whatever the draws.
C5_McarExtremes ==
    (Called /\ last.op = "mcar" /\ last.miss \in Columns(before)) =>
        /\ (last.param = 0 => (last.err = "ok" /\ SameMissing(last.miss)))
        /\ (last.param = Resolution =>
               (last.err = "ok" /\ \A i \in Rows : dataset.cols[last.miss][i].na))

\* C5 witness: mcar with p = 1 returned on a column that had a value in
\* every row.
C5_Witness ==
    /\ Called /\ last.op = "mcar" /\ last.param = Resolution /\ last.miss = "x"
    /\ \A i \in Rows : ~before.cols["x"][i].na
    /\ \A i \in Rows : dataset.cols["x"][i].na

\* C6: with b = 0, mar and nmar on existing columns return normally and add
\* no missing cell, whatever the dependent column holds.
C6_ZeroBetaNoMissing ==
    (Called /\ last.op \in {"mar", "nmar"} /\ last.param = 0
       /\ Referenced \subseteq Columns(before)) =>
        (last.err = "ok" /\ SameMissing(last.miss))

\* C7: a cell that holds the missing marker holds it in every later state.
C7_MissingIsTerminal ==
    [][\A c \in ColNames : \A i \in Rows :
          dataset.cols[c][i].na => dataset'.cols[c][i].na]_vars

\* C7 witness: a call selected a cell that was already missing, and the cell
\* is still missing.
C7_Witness ==
    /\ Called /\ last.miss \in ColNames
    /\ \E i \in Rows :
          before.cols[last.miss][i].na /\ Selected(i) /\ dataset.cols[last.miss][i].na

C9_OneDrawPerCategory ==
    (Called /\ last.branch = "categorical") =>
        LET col == before.cols[last.dep]
            distinct == {col[i] : i \in Rows}
        IN /\ Cardinality(Normals) = Cardinality(distinct)
           /\ {last.log[k].key : k \in Normals} = distinct
           /\ \A k \in Normals : \A t \in Trials : k < t
           /\ \A t \in Trials : \E k \in Normals :
                 /\ last.log[k].key = col[last.log[t].row]
                 /\ last.log[t].prob = Times(sig(ZFin(last.log[k].z, 1)), last.param)
           /\ \A s, t \in Trials :
                 col[last.log[s].row] = col[last.log[t].row] =>
                    last.log[s].prob = last.log[t].prob

\* C9 witness: a categorical call returned after trying two rows of the same
\* category and one of another, the two categories with different draws.
C9_Witness ==
    /\ Called /\ last.branch = "categorical" /\ last.err = "ok" /\ last.param = 1
    /\ \E i, j, l \in Rows :
          /\ i # j /\ Tried(i) /\ Tried(j) /\ Tried(l)
          /\ before.cols[last.dep][i] = before.cols[last.dep][j]
          /\ before.cols[last.dep][i] # before.cols[last.dep][l]
          /\ \E s, t \in Trials :
                last.log[s].row = i /\ last.log[t].row = l
                /\ last.log[s].prob # last.log[t].prob

\* C10: mar and nmar take the categorical branch when the dependent column is
\* boolean or categorical/string-typed and the numeric branch otherwise.
C10_TypeDispatch ==
    (Called /\ last.op \in {"mar", "nmar"} /\ ~ParamOutside
       /\ last.dep \in Columns(before)) =>
        last.branch = (IF before.dtypes[last.dep] \in {"bool", "object", "category"}
                       THEN "categorical" ELSE "numeric")

====
